---- MODULE Spec2Model ----
(***************************************************************************)
(* The macro cc! of clonesure (src/src/lib.rs) as a token rewriting        *)
(* system.  A macro invocation is a sequence of tokens; every rule of the  *)
(* macro_rules! table is one action.  The rules of the table are tried in  *)
(* the order in which they are written and the first one matching wins.    *)
(* The recursive invocation cc!(@@impl mut[..] clone[..] param[..] t..)    *)
(* is held in the variables mut, clone, param and t.                       *)
(***************************************************************************)
EXTENDS Naturals, Integers, Sequences, FiniteSets, TLC

VARIABLES
    input,   \* the tokens of the invocation cc!(input), never changed
    pc,      \* "entry", "impl", "unblock", "done" or "error"
    mut,     \* the array mut[...]   of the @@impl invocation
    clone,   \* the array clone[...] of the @@impl invocation
    param,   \* the array param[...] of the @@impl invocation: triples
    t,       \* the remaining tokens $($t)* of the @@impl invocation
    out      \* the tokens the expansion has produced

vars == <<input, pc, mut, clone, param, t, out>>

\* ------------------------------------------------------------- bounds
MaxToks == 3     \* free-form parameter tokens of an invocation
MaxItems == 2    \* items of a comma-separated parameter list

\* ------------------------------------------------------------- tokens
\* the names the generated invocations use
Names == {"a", "b"}
\* the names the invocations of the documentation use
DocNames == {"c", "d", "e", "f", "s1", "s2", "s3", "s4", "s5", "s6", "s7"}
\* keywords are identifiers to the fragment specifier `ident`
Keywords == {"mut", "move", "true", "false"}
Alphabet == {"@", "&", "mut", ",", "|", "||", "1"} \cup Names

DropN(ts, n) == SubSeq(ts, n + 1, Len(ts))

\* $var:ident
IsIdent(tok) == tok \in Names \cup DocNames \cup Keywords

\* ------------------------------------------------- the @@impl patterns
\* what follows `@@impl mut[..] clone[..] param[..]` in each pattern
MatchAtMut(ts) == Len(ts) >= 3 /\ ts[1] = "@" /\ ts[2] = "mut" /\ IsIdent(ts[3])
MatchAt(ts) == Len(ts) >= 2 /\ ts[1] = "@" /\ IsIdent(ts[2])
MatchRefMut(ts) == Len(ts) >= 3 /\ ts[1] = "&" /\ ts[2] = "mut" /\ IsIdent(ts[3])
MatchRef(ts) == Len(ts) >= 2 /\ ts[1] = "&" /\ IsIdent(ts[2])
MatchMut(ts) == Len(ts) >= 2 /\ ts[1] = "mut" /\ IsIdent(ts[2])
MatchIdent(ts) == Len(ts) >= 1 /\ IsIdent(ts[1])
\* a comma taken only between two items
MatchComma_Between(ts) ==
    Len(ts) >= 2 /\ ts[1] = "," /\ ts[2] \notin {",", "|"}
MatchComma(ts) == Len(ts) >= 1 /\ ts[1] = ","
MatchBar(ts) == Len(ts) >= 1 /\ ts[1] = "|"

\* the rule of `@xx` written above the rule of `@mut xx`
ImplRule_AtFirst(ts) ==
    IF MatchAt(ts) THEN 2
    ELSE IF MatchAtMut(ts) THEN 1
    ELSE IF MatchRefMut(ts) THEN 3
    ELSE IF MatchRef(ts) THEN 4
    ELSE IF MatchMut(ts) THEN 5
    ELSE IF MatchIdent(ts) THEN 6
    ELSE IF MatchComma(ts) THEN 7
    ELSE IF MatchBar(ts) THEN 8
    ELSE 0

\* the first @@impl rule, in the order of the table, that matches; 0: none
ImplRule(ts) ==
    IF MatchAtMut(ts) THEN 1
    ELSE IF MatchAt(ts) THEN 2
    ELSE IF MatchRefMut(ts) THEN 3
    ELSE IF MatchRef(ts) THEN 4
    ELSE IF MatchMut(ts) THEN 5
    ELSE IF MatchIdent(ts) THEN 6
    ELSE IF MatchComma(ts) THEN 7
    ELSE IF MatchBar(ts) THEN 8
    ELSE 0

\* ------------------------------------------- the @@impl transcriptions
\* s is the invocation [mut, clone, param, t]
EatAtMut(s) == [s EXCEPT !.mut = Append(@, s.t[3]), !.t = DropN(s.t, 3)]
\* the array param not carried into the next invocation
EatAt_ParamLost(s) ==
    [s EXCEPT !.clone = Append(@, s.t[2]), !.param = <<>>, !.t = DropN(s.t, 2)]
EatAt(s) == [s EXCEPT !.clone = Append(@, s.t[2]), !.t = DropN(s.t, 2)]
EatRefMut(s) ==
    [s EXCEPT !.param = Append(@, <<"true", "true", s.t[3]>>), !.t = DropN(s.t, 3)]
EatRef(s) ==
    [s EXCEPT !.param = Append(@, <<"true", "false", s.t[2]>>), !.t = DropN(s.t, 2)]
EatMut(s) ==
    [s EXCEPT !.param = Append(@, <<"false", "true", s.t[2]>>), !.t = DropN(s.t, 2)]
\* the parameter put in front of the array instead of behind it
EatIdent_InFront(s) ==
    [s EXCEPT !.param = <<<<"false", "false", s.t[1]>>>> \o @, !.t = DropN(s.t, 1)]
EatIdent(s) ==
    [s EXCEPT !.param = Append(@, <<"false", "false", s.t[1]>>), !.t = DropN(s.t, 1)]
\* the comma handed on to the next invocation
EatComma_Kept(s) == s
EatComma(s) == [s EXCEPT !.t = DropN(s.t, 1)]

Eat(k, s) ==
    CASE k = 1 -> EatAtMut(s)
      [] k = 2 -> EatAt(s)
      [] k = 3 -> EatRefMut(s)
      [] k = 4 -> EatRef(s)
      [] k = 5 -> EatMut(s)
      [] k = 6 -> EatIdent(s)
      [] k = 7 -> EatComma(s)

\* eat the second `|`, generate result
LetMut(x) == <<"let", "mut", x, "=", x, ".", "clone", "(", ")", ";">>
LetClone(x) == <<"let", x, "=", x, ".", "clone", "(", ")", ";">>
UnblockCall(p) == <<"cc!", "(", "@", "@", "unblock", p[1], p[2], p[3], ")">>

RECURSIVE LetMuts(_)
LetMuts(xs) == IF xs = <<>> THEN <<>> ELSE LetMut(Head(xs)) \o LetMuts(Tail(xs))

RECURSIVE LetClones(_)
LetClones(xs) == IF xs = <<>> THEN <<>> ELSE LetClone(Head(xs)) \o LetClones(Tail(xs))

\* $( cc!(@@unblock ...) ),*
RECURSIVE UnblockCalls(_)
UnblockCalls(ps) ==
    IF ps = <<>> THEN <<>>
    ELSE IF Len(ps) = 1 THEN UnblockCall(ps[1])
    ELSE UnblockCall(Head(ps)) \o <<",">> \o UnblockCalls(Tail(ps))

GenerateResult(s) ==
    <<"{">> \o LetMuts(s.mut) \o LetClones(s.clone)
        \o <<"move", "|">> \o UnblockCalls(s.param) \o <<"|">> \o DropN(s.t, 1)
        \o <<"}">>

\* ------------------------------------------------------ the @@unblock rules
\* the arguments of an invocation cc!(@@unblock r m x), after `@@unblock`
UnblockRule(a) ==
    IF a[1] = "false" /\ a[2] = "false" /\ IsIdent(a[3]) THEN 1
    ELSE IF a[1] = "true" /\ a[2] = "false" /\ IsIdent(a[3]) THEN 2
    ELSE IF a[1] = "false" /\ a[2] = "true" /\ IsIdent(a[3]) THEN 3
    ELSE IF a[1] = "true" /\ a[2] = "true" /\ IsIdent(a[3]) THEN 4
    ELSE 0

UnblockPlain(a) == <<a[3]>>
UnblockRef(a) == <<"&", a[3]>>
UnblockMut(a) == <<"mut", a[3]>>
UnblockRefMut(a) == <<"&", "mut", a[3]>>

Unblock(k, a) ==
    CASE k = 1 -> UnblockPlain(a)
      [] k = 2 -> UnblockRef(a)
      [] k = 3 -> UnblockMut(a)
      [] k = 4 -> UnblockRefMut(a)

\* the invocations of cc! left in the produced tokens
Pending(ts) == {i \in 1..Len(ts) : ts[i] = "cc!"}
FirstPending(ts) == CHOOSE i \in Pending(ts) : \A j \in Pending(ts) : i <= j
CallArgs(ts, i) == SubSeq(ts, i + 5, i + 7)
\* the invocation at i, nine tokens long, replaced by its transcription
Splice(ts, i, k) ==
    SubSeq(ts, 1, i - 1) \o Unblock(k, CallArgs(ts, i)) \o DropN(ts, i + 8)

\* ------------------------------------------------------ the entry rules
EntryRule(ts) ==
    IF Len(ts) >= 1 /\ ts[1] = "||" THEN 1
    ELSE IF Len(ts) >= 2 /\ ts[1] = "move" /\ ts[2] = "||" THEN 2
    ELSE IF Len(ts) >= 1 /\ ts[1] = "|" THEN 3
    ELSE IF Len(ts) >= 2 /\ ts[1] = "move" /\ ts[2] = "|" THEN 4
    ELSE 0

\* the closure without the keyword `move`
NoParams_NotMoved(ts) == <<"||">> \o DropN(ts, 1)
NoParams(ts) == <<"move", "||">> \o DropN(ts, 1)
MoveNoParams(ts) == <<"move", "||">> \o DropN(ts, 2)
Impl(ts) == [mut |-> <<>>, clone |-> <<>>, param |-> <<>>, t |-> DropN(ts, 1)]
MoveImpl(ts) == [mut |-> <<>>, clone |-> <<>>, param |-> <<>>, t |-> DropN(ts, 2)]

\* ------------------------------------------------------ the whole expansion
RECURSIVE UnblockAll(_)
UnblockAll(ts) ==
    IF Pending(ts) = {} THEN [pc |-> "done", out |-> ts]
    ELSE LET i == FirstPending(ts)
             k == UnblockRule(CallArgs(ts, i))
         IN  IF k = 0 THEN [pc |-> "error", out |-> ts]
             ELSE UnblockAll(Splice(ts, i, k))

RECURSIVE Munch(_)
Munch(s) ==
    LET k == ImplRule(s.t)
    IN  IF k = 0 THEN [pc |-> "error", out |-> <<>>]
        ELSE IF k = 8 THEN UnblockAll(GenerateResult(s))
        ELSE Munch(Eat(k, s))

\* cc!(ts), expanded until no invocation of cc! is left
Expand(ts) ==
    LET k == EntryRule(ts)
    IN  CASE k = 0 -> [pc |-> "error", out |-> <<>>]
          [] k = 1 -> [pc |-> "done", out |-> NoParams(ts)]
          [] k = 2 -> [pc |-> "done", out |-> MoveNoParams(ts)]
          [] k = 3 -> Munch(Impl(ts))
          [] k = 4 -> Munch(MoveImpl(ts))

\* ------------------------------------------------------ the invocations
Item(kind, x) ==
    CASE kind = "at" -> <<"@", x>>
      [] kind = "atmut" -> <<"@", "mut", x>>
      [] kind = "plain" -> <<x>>
      [] kind = "ref" -> <<"&", x>>
      [] kind = "mut" -> <<"mut", x>>
      [] kind = "refmut" -> <<"&", "mut", x>>

Kinds == {"at", "atmut", "plain", "ref", "mut", "refmut"}
Items == {Item(k, x) : k \in Kinds, x \in Names}

\* items joined by commas
RECURSIVE Join(_)
Join(its) ==
    IF its = <<>> THEN <<>>
    ELSE IF Len(its) = 1 THEN its[1]
    ELSE Head(its) \o <<",">> \o Join(Tail(its))

SeqsUpTo(S, n) == UNION {[1..m -> S] : m \in 0..n}

Body == <<"{}">>
Openers == {<<>>, <<"|">>, <<"move", "|">>, <<"||">>, <<"move", "||">>}
Closers == {<<>>, <<"|">>}

\* invocations with free-form parameter tokens
TokenInputs ==
    {o \o p \o c \o Body : o \in Openers, p \in SeqsUpTo(Alphabet, MaxToks), c \in Closers}

\* invocations with a comma-separated list of items
ItemInputs ==
    {o \o <<"|">> \o Join(its) \o <<"|">> \o Body :
        o \in {<<>>, <<"move">>}, its \in SeqsUpTo(Items, MaxItems)}

\* the invocations of the documentation and of examples/main.rs
DocInputs ==
    { <<"||", "{}">>,
      <<"move", "||", "{}">>,
      <<"|", "@", "s1", "|", "{}">>,
      <<"|", "@", "s1", ",", "@", "s2", "|", "{}">>,
      <<"|", "@", "mut", "s1", ",", "@", "s2", "|", "{}">>,
      <<"|", "@", "a", ",", "@", "mut", "b", ",", "c", ",", "&", "d", ",",
        "mut", "e", ",", "&", "mut", "f", "|", "{}">>,
      <<"|", "@", "mut", "s1", ",", "@", "s2", ",", "s3", ",", "&", "s4", ",",
        "mut", "s5", ",", "&", "mut", "s6", "|", "{}">>,
      <<"|", "s1", ",", "@", "s2", ",", "&", "mut", "s3", ",", "@", "mut", "s4", ",",
        "&", "s5", ",", "@", "s6", ",", "mut", "s7", "|", "{}">> }

Init ==
    /\ input \in TokenInputs \cup ItemInputs \cup DocInputs
    /\ pc = "entry"
    /\ mut = <<>>
    /\ clone = <<>>
    /\ param = <<>>
    /\ t = <<>>
    /\ out = <<>>

\* ------------------------------------------------------ the actions
Invocation == [mut |-> mut, clone |-> clone, param |-> param, t |-> t]

Recurse(s) ==
    /\ pc' = "impl"
    /\ mut' = s.mut
    /\ clone' = s.clone
    /\ param' = s.param
    /\ t' = s.t
    /\ UNCHANGED <<input, out>>

Produce(ts) ==
    /\ out' = ts
    /\ pc' = IF Pending(ts) = {} THEN "done" ELSE "unblock"
    /\ UNCHANGED <<input, mut, clone, param, t>>

RuleNoParams == pc = "entry" /\ EntryRule(input) = 1 /\ Produce(NoParams(input))
RuleMoveNoParams == pc = "entry" /\ EntryRule(input) = 2 /\ Produce(MoveNoParams(input))
RuleImpl == pc = "entry" /\ EntryRule(input) = 3 /\ Recurse(Impl(input))
RuleMoveImpl == pc = "entry" /\ EntryRule(input) = 4 /\ Recurse(MoveImpl(input))

RuleAtMut == pc = "impl" /\ ImplRule(t) = 1 /\ Recurse(EatAtMut(Invocation))
RuleAt == pc = "impl" /\ ImplRule(t) = 2 /\ Recurse(EatAt(Invocation))
RuleRefMut == pc = "impl" /\ ImplRule(t) = 3 /\ Recurse(EatRefMut(Invocation))
RuleRef == pc = "impl" /\ ImplRule(t) = 4 /\ Recurse(EatRef(Invocation))
RuleMut == pc = "impl" /\ ImplRule(t) = 5 /\ Recurse(EatMut(Invocation))
RuleIdent == pc = "impl" /\ ImplRule(t) = 6 /\ Recurse(EatIdent(Invocation))
RuleComma == pc = "impl" /\ ImplRule(t) = 7 /\ Recurse(EatComma(Invocation))
RuleResult == pc = "impl" /\ ImplRule(t) = 8 /\ Produce(GenerateResult(Invocation))

\* the rule of the leftmost invocation of cc!(@@unblock ..) left in out
PendingRule == UnblockRule(CallArgs(out, FirstPending(out)))

RuleUnblockPlain ==
    pc = "unblock" /\ PendingRule = 1 /\ Produce(Splice(out, FirstPending(out), 1))
RuleUnblockRef ==
    pc = "unblock" /\ PendingRule = 2 /\ Produce(Splice(out, FirstPending(out), 2))
RuleUnblockMut ==
    pc = "unblock" /\ PendingRule = 3 /\ Produce(Splice(out, FirstPending(out), 3))
RuleUnblockRefMut ==
    pc = "unblock" /\ PendingRule = 4 /\ Produce(Splice(out, FirstPending(out), 4))

\* no rule of the table matches: the expansion stops with a compile error
NoRulesExpected ==
    /\ \/ pc = "entry" /\ EntryRule(input) = 0
       \/ pc = "impl" /\ ImplRule(t) = 0
    /\ pc' = "error"
    /\ UNCHANGED <<input, mut, clone, param, t, out>>

Next ==
    \/ RuleNoParams
    \/ RuleMoveNoParams
    \/ RuleImpl
    \/ RuleMoveImpl
    \/ RuleAtMut
    \/ RuleAt
    \/ RuleRefMut
    \/ RuleRef
    \/ RuleMut
    \/ RuleIdent
    \/ RuleComma
    \/ RuleResult
    \/ RuleUnblockPlain
    \/ RuleUnblockRef
    \/ RuleUnblockMut
    \/ RuleUnblockRefMut
    \/ NoRulesExpected

Spec == Init /\ [][Next]_vars

\* ===================================================== the properties
\* The documented syntax, read independently of the rule table: a parameter
\* item is one of the six forms over a name that is no keyword.
PlainNames == Names \cup DocNames

\* the form, the name and the length of the item at the head of ts
HeadItem(ts) ==
    IF Len(ts) >= 3 /\ ts[1] = "@" /\ ts[2] = "mut" /\ ts[3] \in PlainNames
        THEN [kind |-> "atmut", name |-> ts[3], len |-> 3]
    ELSE IF Len(ts) >= 2 /\ ts[1] = "@" /\ ts[2] \in PlainNames
        THEN [kind |-> "at", name |-> ts[2], len |-> 2]
    ELSE IF Len(ts) >= 3 /\ ts[1] = "&" /\ ts[2] = "mut" /\ ts[3] \in PlainNames
        THEN [kind |-> "refmut", name |-> ts[3], len |-> 3]
    ELSE IF Len(ts) >= 2 /\ ts[1] = "&" /\ ts[2] \in PlainNames
        THEN [kind |-> "ref", name |-> ts[2], len |-> 2]
    ELSE IF Len(ts) >= 2 /\ ts[1] = "mut" /\ ts[2] \in PlainNames
        THEN [kind |-> "mut", name |-> ts[2], len |-> 2]
    ELSE IF Len(ts) >= 1 /\ ts[1] \in PlainNames
        THEN [kind |-> "plain", name |-> ts[1], len |-> 1]
    ELSE [kind |-> "none", name |-> "", len |-> 0]

\* item , item , ... , item
RECURSIVE IsCommaSeparated(_)
IsCommaSeparated(ts) ==
    LET h == HeadItem(ts)
        r == DropN(ts, h.len)
    IN  /\ h.kind # "none"
        /\ \/ r = <<>>
           \/ Head(r) = "," /\ IsCommaSeparated(Tail(r))

\* items and commas in any arrangement
RECURSIVE IsItemsAndCommas(_)
IsItemsAndCommas(ts) ==
    \/ ts = <<>>
    \/ Head(ts) = "," /\ IsItemsAndCommas(Tail(ts))
    \/ HeadItem(ts).kind # "none" /\ IsItemsAndCommas(DropN(ts, HeadItem(ts).len))

\* the items of ts, commas skipped
RECURSIVE ItemsOf(_)
ItemsOf(ts) ==
    IF ts = <<>> THEN <<>>
    ELSE IF Head(ts) = "," THEN ItemsOf(Tail(ts))
    ELSE LET h == HeadItem(ts)
         IN  IF h.kind = "none" THEN <<>>
             ELSE <<[kind |-> h.kind, name |-> h.name]>> \o ItemsOf(DropN(ts, h.len))

SelectItems(its, kinds) == SelectSeq(its, LAMBDA it : it.kind \in kinds)
CloneKinds == {"at", "atmut"}
ParamKinds == Kinds \ CloneKinds

\* the first position of tok in ts, 0 when it does not occur
FirstPos(ts, tok) ==
    IF \E i \in 1..Len(ts) : ts[i] = tok
    THEN CHOOSE i \in 1..Len(ts) : ts[i] = tok /\ \A j \in 1..(i - 1) : ts[j] # tok
    ELSE 0

\* cc!(| .. ) or cc!(move | .. )
HasParams(ts) ==
    \/ Len(ts) >= 1 /\ ts[1] = "|"
    \/ Len(ts) >= 2 /\ ts[1] = "move" /\ ts[2] = "|"
AfterOpen(ts) == IF ts[1] = "move" THEN DropN(ts, 2) ELSE DropN(ts, 1)
IsClosed(ts) == HasParams(ts) /\ FirstPos(AfterOpen(ts), "|") > 0
\* the tokens between the opening `|` and the next `|`
ParamToks(ts) == SubSeq(AfterOpen(ts), 1, FirstPos(AfterOpen(ts), "|") - 1)
\* the tokens after the closing `|`
BodyToks(ts) == DropN(AfterOpen(ts), FirstPos(AfterOpen(ts), "|"))

\* the invocation is written as the documentation writes it
WellFormed(ts) ==
    IsClosed(ts) /\ (ParamToks(ts) = <<>> \/ IsCommaSeparated(ParamToks(ts)))

RECURSIVE ItemTokens(_)
ItemTokens(its) ==
    IF its = <<>> THEN <<>> ELSE <<Item(Head(its).kind, Head(its).name)>> \o ItemTokens(Tail(its))

\* the parameter list of the closure in the produced tokens
ClosureParams(ts) ==
    LET a == FirstPos(ts, "|")
        r == DropN(ts, a)
    IN  SubSeq(r, 1, FirstPos(r, "|") - 1)

\* the statements before the closure in the produced block
BlockStatements(ts) == SubSeq(ts, 2, FirstPos(ts, "move") - 1)

\* one clone statement per @-item, in the order of the items
RECURSIVE CloneStatements(_)
CloneStatements(its) ==
    IF its = <<>> THEN <<>>
    ELSE (IF Head(its).kind = "atmut" THEN LetMut(Head(its).name)
          ELSE LetClone(Head(its).name)) \o CloneStatements(Tail(its))

\* the translation as the documentation of cc! writes it
DocTranslation(ts) ==
    LET its == ItemsOf(ParamToks(ts))
    IN  <<"{">> \o CloneStatements(SelectItems(its, CloneKinds))
            \o <<"move", "|">> \o Join(ItemTokens(SelectItems(its, ParamKinds)))
            \o <<"|">> \o BodyToks(ts) \o <<"}">>

\* C1: the expansion of a well-formed invocation is exactly the block of the
\* documentation: the clone statements in the order of the @-items (`let a`
\* before `let mut b` for |@a, @mut b, ..|), then the move closure over the
\* other items.
C1_DocTranslation ==
    (pc = "done" /\ WellFormed(input)) => out = DocTranslation(input)

\* C2: the parameter list of the generated closure is exactly the items that
\* are no @-items, in their order, each with its `&` / `mut`.
C2_ParamOrderKept ==
    (pc = "done" /\ WellFormed(input)) =>
        ClosureParams(out) =
            Join(ItemTokens(SelectItems(ItemsOf(ParamToks(input)), ParamKinds)))

\* an @-item stands between two other items of different forms
C2_Witness ==
    /\ pc = "done"
    /\ WellFormed(input)
    /\ LET its == ItemsOf(ParamToks(input))
       IN  \E i, j, k \in 1..Len(its) :
              /\ i < j /\ j < k
              /\ its[i].kind \in ParamKinds
              /\ its[j].kind \in CloneKinds
              /\ its[k].kind \in ParamKinds
              /\ its[i].kind # its[k].kind
    /\ Len(ClosureParams(out)) >= 3

\* the statements of a block, as a set
RECURSIVE StatementSet(_)
StatementSet(ts) ==
    IF FirstPos(ts, ";") = 0 THEN {}
    ELSE {SubSeq(ts, 1, FirstPos(ts, ";"))} \cup StatementSet(DropN(ts, FirstPos(ts, ";")))

Without(xs, i) == SubSeq(xs, 1, i - 1) \o DropN(xs, i)

\* the lists that keep the items of ps in their order and place the items
\* of cs anywhere among them, in any order
RECURSIVE Rearrangements(_, _)
Rearrangements(ps, cs) ==
    IF ps = <<>> /\ cs = <<>> THEN {<<>>}
    ELSE (IF ps = <<>> THEN {}
          ELSE {<<Head(ps)>> \o r : r \in Rearrangements(Tail(ps), cs)})
         \cup UNION {{<<cs[i]>> \o r : r \in Rearrangements(ps, Without(cs, i))} :
                        i \in 1..Len(cs)}

Opening(ts) == IF ts[1] = "move" THEN <<"move", "|">> ELSE <<"|">>

\* C3: a parameter list with the same items that are no @-items in the same
\* order and the same @-items at other places expands to the same closure
\* parameter list and the same set of clone statements.
C3_CloneOrderIrrelevant ==
    (pc = "done" /\ WellFormed(input)) =>
        LET its == ItemsOf(ParamToks(input))
        IN  \A other \in Rearrangements(SelectItems(its, ParamKinds),
                                        SelectItems(its, CloneKinds)) :
               LET r == Expand(Opening(input) \o Join(ItemTokens(other))
                                \o <<"|">> \o BodyToks(input))
               IN  /\ r.pc = "done"
                   /\ ClosureParams(r.out) = ClosureParams(out)
                   /\ StatementSet(BlockStatements(r.out))
                          = StatementSet(BlockStatements(out))

\* the list has @-items of both forms and other items, so that it has
\* rearrangements that move and permute the @-items
C3_Witness ==
    /\ pc = "done"
    /\ WellFormed(input)
    /\ LET its == ItemsOf(ParamToks(input))
       IN  /\ Len(SelectItems(its, ParamKinds)) >= 1
           /\ Len(SelectItems(its, {"at"})) >= 1
           /\ Len(SelectItems(its, {"atmut"})) >= 1
           /\ its[1].kind \in ParamKinds
           /\ Cardinality(Rearrangements(SelectItems(its, ParamKinds),
                                         SelectItems(its, CloneKinds))) >= 6
    /\ Cardinality(StatementSet(BlockStatements(out))) >= 2

\* the same invocation with the leading `move` taken away or put in front
MoveToggled(ts) == IF ts[1] = "move" THEN Tail(ts) ELSE <<"move">> \o ts

\* the token in front of the parameter list of the produced closure
ClosureKeyword(ts) ==
    LET a == IF FirstPos(ts, "||") = 0 THEN FirstPos(ts, "|")
             ELSE IF FirstPos(ts, "|") = 0 THEN FirstPos(ts, "||")
             ELSE IF FirstPos(ts, "|") < FirstPos(ts, "||") THEN FirstPos(ts, "|")
             ELSE FirstPos(ts, "||")
    IN  IF a >= 2 THEN ts[a - 1] ELSE ""

\* C4: every expansion result is a closure with the keyword `move`, and
\* the invocation with and without a leading `move` expand alike.
C4_ImplicitMove ==
    /\ pc = "done" =>
          /\ ClosureKeyword(out) = "move"
          /\ Expand(MoveToggled(input)) = [pc |-> "done", out |-> out]
    /\ pc = "error" => Expand(MoveToggled(input)).pc = "error"

\* an invocation without `move` and with parameters has been expanded
C4_Witness ==
    /\ pc = "done"
    /\ input[1] # "move"
    /\ HasParams(input)
    /\ param # <<>>
    /\ clone # <<>>

\* C5, as claimed: only a comma-separated list of the six item forms reaches
\* an expansion result; any other parameter list gets stuck.
C5_MalformedRejected ==
    (pc \in {"unblock", "done"} /\ HasParams(input)) => WellFormed(input)

\* an `@` or `&` of ts not directly followed by an identifier or a keyword
Dangling(ts) ==
    \E i \in 1..Len(ts) :
        ts[i] \in {"@", "&"} /\ (i = Len(ts) \/ ts[i + 1] \notin PlainNames \cup Keywords)

\* a token of ts no rule of the muncher begins with
Foreign(ts) ==
    \E i \in 1..Len(ts) : ts[i] \notin {"@", "&", ","} \cup PlainNames \cup Keywords

\* C5, amended: with parameters, the rewrite gets stuck exactly when there is
\* no closing `|`, or before it a token that is no `,`, `@`, `&`, identifier
\* or keyword, or an `@` or `&` not directly followed by an identifier or a
\* keyword; commas are not needed: items of the six forms with missing,
\* leading, trailing or repeated commas do reach an expansion result.
C5_StuckExactly ==
    HasParams(input) =>
        LET stuck == \/ ~IsClosed(input)
                     \/ Foreign(ParamToks(input))
                     \/ Dangling(ParamToks(input))
        IN  /\ pc = "error" => stuck
            /\ pc \in {"unblock", "done"} => ~stuck
            /\ (IsClosed(input) /\ IsItemsAndCommas(ParamToks(input))) => pc # "error"

\* a list of two or more items that is not comma-separated has been expanded
C5_Witness ==
    /\ pc = "done"
    /\ HasParams(input)
    /\ ~WellFormed(input)
    /\ IsItemsAndCommas(ParamToks(input))
    /\ Len(ItemsOf(ParamToks(input))) >= 2
    /\ Len(mut) + Len(clone) + Len(param) >= 2

\* the parameter tokens the muncher has consumed
Consumed(ts, rest) == SubSeq(AfterOpen(ts), 1, Len(AfterOpen(ts)) - Len(rest))

C6_Step ==
    (/\ IsClosed(input)
     /\ IsItemsAndCommas(ParamToks(input))
     /\ pc' = "impl") =>
        /\ Len(mut') + Len(clone') + Len(param') = Len(ItemsOf(Consumed(input, t')))
        /\ pc = "impl" =>
              LET h == HeadItem(t)
              IN  CASE h.kind = "atmut" ->
                         /\ mut' = Append(mut, h.name)
                         /\ clone' = clone /\ param' = param
                    [] h.kind = "at" ->
                         /\ clone' = Append(clone, h.name)
                         /\ mut' = mut /\ param' = param
                    [] h.kind = "refmut" ->
                         /\ param' = Append(param, <<"true", "true", h.name>>)
                         /\ mut' = mut /\ clone' = clone
                    [] h.kind = "ref" ->
                         /\ param' = Append(param, <<"true", "false", h.name>>)
                         /\ mut' = mut /\ clone' = clone
                    [] h.kind = "mut" ->
                         /\ param' = Append(param, <<"false", "true", h.name>>)
                         /\ mut' = mut /\ clone' = clone
                    [] h.kind = "plain" ->
                         /\ param' = Append(param, <<"false", "false", h.name>>)
                         /\ mut' = mut /\ clone' = clone
                    [] h.kind = "none" ->
                         /\ Head(t) = ","
                         /\ mut' = mut /\ clone' = clone /\ param' = param

\* C6: every item is recorded once, in the one accumulator of its form: `@mut x`
\* in mut, `@x` in clone, the others as [ref mut x] in param; a comma changes
\* no accumulator; the sizes of the accumulators sum to the items consumed.
C6_Accumulators == [][C6_Step]_vars

\* all three accumulators are in use and the muncher is at work
C6_Witness ==
    /\ pc = "impl"
    /\ IsClosed(input)
    /\ IsItemsAndCommas(ParamToks(input))
    /\ mut # <<>>
    /\ clone # <<>>
    /\ param # <<>>

\* what is left to do: the phase of the expansion, then the tokens the muncher
\* has still to read or the invocations still to expand
Phase == CASE pc = "entry" -> 3 [] pc = "impl" -> 2 [] pc = "unblock" -> 1 [] OTHER -> 0
Left == CASE pc = "impl" -> Len(t)
          [] pc = "unblock" -> Cardinality(Pending(out))
          [] OTHER -> 0

C7_Step ==
    /\ Phase' < Phase \/ (Phase' = Phase /\ Left' < Left)
    /\ (pc = "impl" /\ pc' = "impl") =>
          /\ Len(t') < Len(t)
          /\ t' = DropN(t, Len(t) - Len(t'))
    /\ (pc = "impl" /\ pc' \in {"unblock", "done"}) =>
          /\ t' = t
          /\ Len(Consumed(input, t)) + 1 = FirstPos(AfterOpen(input), "|")

\* C7: every step of the muncher drops tokens from the front of the remaining
\* input and adds none, and the result is generated at the first `|` after the
\* opening one; every step brings the expansion nearer to its end, and an
\* expansion that has not ended, with a result or with no rule matching, has a
\* step to take: no expansion goes on forever.
C7_SinglePassTerminates ==
    /\ [][C7_Step]_vars
    /\ [](pc \notin {"done", "error"} => ENABLED <<Next>>_vars)

\* the muncher has consumed several items and commas and generated the result
C7_Witness ==
    /\ pc = "done"
    /\ HasParams(input)
    /\ Len(Consumed(input, t)) >= 5
    /\ Len(mut) + Len(clone) + Len(param) >= 2

====
